---- MODULE Spec2Model ----
(***************************************************************************)
(* Model of jrasp-daemon/environ/environ.go: NewEnviron, getHostname,      *)
(* readHostNameFromFile, writeHostNameToFile, GetDefaultIp and             *)
(* GetInstallDisk.  One run of NewEnviron is a sequence of steps (pc);     *)
(* the daemon may be restarted, so the hostname cache file survives from   *)
(* one run to the next.  Every external probe (file system, OS, network,   *)
(* gopsutil) answers nondeterministically: it succeeds or it fails.        *)
(***************************************************************************)
EXTENDS Integers, Sequences, FiniteSets, TLC

\* ---------------------------------------------------------------- bounds
MaxLen == 2       \* longest hostname / file content, in characters
MaxRuns == 2      \* number of daemon starts (NewEnviron runs)

\* ------------------------------------------------------------- constants
GB == 1073741824  \* const GB = 1024 * 1024 * 1024

\* Characters of a hostname or of the cache file: a letter and a white
\* space (any character strings.TrimSpace strips).
Chars == {"a", " "}
IsSpace(c) == c = " "

RECURSIVE StringsUpTo(_)
StringsUpTo(n) ==
    IF n = 0 THEN {<<>>}
    ELSE LET S == StringsUpTo(n - 1)
         IN  S \cup {Append(s, c) : s \in {t \in S : Len(t) = n - 1}, c \in Chars}

Strings == StringsUpTo(MaxLen)
EmptyString == <<>>

\* nil error / error values
NIL == "nil"
NoFile == <<"ENOENT">>      \* hostname.txt does not exist
NilMem == [nil |-> TRUE]    \* (*mem.VirtualMemoryStat)(nil)
NilEnv == [nil |-> TRUE]    \* (*Environ)(nil)

\* values the successful collaborators may report
MemTotals == {GB + (GB - 1)}    \* bytes: 1 GB after the integer division
DiskFrees == {GB + (GB - 1)}    \* bytes
CpuCountValues == {2}
LocalIps == {"10.0.0.5"}

Probes == {"abs", "md5", "ip", "mem", "disk", "cpu", "docker",
           "cacheRead", "osHostname", "cacheWrite"}

\* ------------------------------------------------------- pure functions

\* strings.TrimSpace: strip leading and trailing white space
RECURSIVE TrimLeft(_)
TrimLeft(s) ==
    IF s = <<>> THEN s
    ELSE IF IsSpace(Head(s)) THEN TrimLeft(Tail(s)) ELSE s

RECURSIVE TrimRight(_)
TrimRight(s) ==
    IF s = <<>> THEN s
    ELSE IF IsSpace(s[Len(s)]) THEN TrimRight(SubSeq(s, 1, Len(s) - 1)) ELSE s

TrimSpace(s) == TrimRight(TrimLeft(s))

\* Faulty variant: the file's bytes are returned untrimmed.
readHostNameFromFile_NoTrim(f, statOk, readOk) ==
    IF f = NoFile \/ ~statOk THEN [name |-> EmptyString, err |-> IF statOk THEN NIL ELSE "errStat"]
    ELSE IF ~readOk THEN [name |-> EmptyString, err |-> "errRead"]
    ELSE [name |-> f, err |-> NIL]

\* readHostNameFromFile: utils.PathExists, then os.ReadFile, then TrimSpace.
\* statOk = FALSE: PathExists reports (false, err); readOk = FALSE: ReadFile fails.
readHostNameFromFile(f, statOk, readOk) ==
    IF f = NoFile \/ ~statOk THEN [name |-> EmptyString, err |-> IF statOk THEN NIL ELSE "errStat"]
    ELSE IF ~readOk THEN [name |-> EmptyString, err |-> "errRead"]
    ELSE [name |-> TrimSpace(f), err |-> NIL]

\* Faulty variant: the cached name is dropped.
HostNameAfterRead_Ignore(r) == EmptyString

\* getHostname, lines 123-129: hostName := ""; the file's name replaces it
\* only when the read returned no error.
HostNameAfterRead(r) == IF r.err = NIL THEN r.name ELSE EmptyString

\* Faulty variant: the OS hostname is always looked up.
NeedOsHostname_Always(hostName) == TRUE

\* getHostname, line 132: if hostName == ""
NeedOsHostname(hostName) == hostName = EmptyString

\* os.Hostname(): (name, nil) or ("", err); the error is discarded (line 133)
OsHostname(ok, h) == IF ok THEN h ELSE EmptyString

\* Proper prefixes of s: what a WriteFile that failed after opening
\* (O_TRUNC) may leave in the file.
ProperPrefixes(s) == {SubSeq(s, 1, n) : n \in 0..(Len(s) - 1)}

\* Faulty variant: the write never creates the config directory.
writeHostNameToFile_NoMkdir(dir, f, hostName, mkdirOk, writeOk, left) ==
    IF ~dir THEN [dir |-> dir, file |-> f, err |-> "errWrite"]
    ELSE IF ~writeOk THEN [dir |-> TRUE, file |-> left, err |-> "errWrite"]
    ELSE [dir |-> TRUE, file |-> hostName, err |-> NIL]

\* writeHostNameToFile: os.MkdirAll(config dir), then os.WriteFile.
\* left: the file a failed WriteFile leaves behind.
writeHostNameToFile(dir, f, hostName, mkdirOk, writeOk, left) ==
    IF ~mkdirOk THEN [dir |-> dir, file |-> f, err |-> "errMkdir"]
    ELSE IF ~writeOk THEN [dir |-> TRUE, file |-> left, err |-> "errWrite"]
    ELSE [dir |-> TRUE, file |-> hostName, err |-> NIL]

\* Faulty variant: a write error empties the returned name.
getHostnameReturn_FailOnWrite(hostName, werr) ==
    IF werr = NIL THEN hostName ELSE EmptyString

\* getHostname, lines 137-141: the write error is dropped, hostName returned
getHostnameReturn(hostName, werr) == hostName

\* Faulty variant: the OS lookup is repeated while it yields nothing.
PcAfterOsHostname_Retry(hostName) ==
    IF hostName = EmptyString THEN "oshost" ELSE "write"

\* getHostname, lines 133-137: one lookup, then the write
PcAfterOsHostname(hostName) == "write"

\* Faulty variant: the deferred Close is missing.
DeferredClose_Leak(n) == n

\* GetDefaultIp, line 210: defer conn.Close()
DeferredClose(n) == n - 1

\* Faulty variant: a probe failure is not checked.
IpFatal_Ignored(err) == FALSE

\* NewEnviron, lines 84-86: if err != nil { return nil, err }
IpFatal(err) == err # NIL

\* GetInstallDisk: disk.Usage(path); free = state.Free / GB
GetInstallDisk(ok, free) ==
    IF ~ok THEN [free |-> 0, err |-> "errDisk"]
    ELSE [free |-> free \div GB, err |-> NIL]

\* cpu.Counts(true): (n, nil) or (0, err)
CpuCounts(ok, n) == IF ok THEN [n |-> n, err |-> NIL] ELSE [n |-> 0, err |-> "errCpu"]

\* mem.VirtualMemory(): (stat, nil), or (nil, err): gopsutil returns a nil
\* pointer together with its error
VirtualMemory(ok, total) ==
    IF ok THEN [info |-> [Total |-> total], err |-> NIL]
    ELSE [info |-> NilMem, err |-> "errMem"]

\* utils.PathExists("/.dockerenv"): absence or an error both give false
DockerEnvExists(ok, present) == ok /\ present

\* Faulty variant: the last err of the function is returned with the snapshot.
NewEnvironReturn_LeftoverErr(env, err) == [env |-> env, err |-> err]

\* NewEnviron, line 119: return env, nil
NewEnvironReturn(env, err) == [env |-> env, err |-> NIL]

\* ----------------------------------------------------------------- state
VARIABLES
    pc,          \* position of the running NewEnviron
    run,         \* number of the daemon start
    dir,         \* <installDir>/config exists
    file,        \* content of <installDir>/config/hostname.txt, or NoFile
    sockets,     \* sockets opened by GetDefaultIp and not closed
    err,         \* NewEnviron's local err
    ipAddress, memInfo, FreeDisk, cpuCounts, isContainer,  \* NewEnviron's locals
    hostName,    \* getHostname's local
    result,      \* what NewEnviron returned: [env, err]
    attempts,    \* per probe, the number of attempts in this run
    failed,      \* the probes that failed in this run
    call,        \* record of this run's getHostname call: the file it
                 \* found (before), whether the read gave its content (hit),
                 \* the OS lookup (osTried, osOk, os), the value written
                 \* (wrote), whether MkdirAll and WriteFile could succeed
                 \* (wrOk), the write's error (werr), the value returned (ret)
    prevCall,    \* record of the latest getHostname call of an earlier run
    start        \* the cache as this run found it: [dir, file]

fsVars == <<dir, file>>
locals == <<ipAddress, memInfo, FreeDisk, cpuCounts, isContainer>>
vars == <<pc, run, dir, file, sockets, err, ipAddress, memInfo, FreeDisk,
          cpuCounts, isContainer, hostName, result, attempts, failed, call,
          prevCall, start>>

NoResult == [env |-> NilEnv, err |-> NIL]
NoCall == [made |-> FALSE, done |-> FALSE, before |-> NoFile, hit |-> FALSE,
           osTried |-> FALSE, osOk |-> FALSE, os |-> EmptyString,
           wrote |-> EmptyString, wrOk |-> FALSE, werr |-> NIL,
           ret |-> EmptyString]

Files == {NoFile} \cup Strings

Init ==
    /\ pc = "abs"
    /\ run = 1
    /\ dir \in BOOLEAN
    /\ file \in Files
    /\ (file # NoFile => dir)
    /\ sockets = 0
    /\ err = NIL
    /\ ipAddress = ""
    /\ memInfo = NilMem
    /\ FreeDisk = 0
    /\ cpuCounts = 0
    /\ isContainer = FALSE
    /\ hostName = EmptyString
    /\ result = NoResult
    /\ attempts = [p \in Probes |-> 0]
    /\ failed = {}
    /\ call = NoCall
    /\ prevCall = NoCall
    /\ start = [dir |-> dir, file |-> file]

Attempt(p, ok) ==
    /\ attempts' = [attempts EXCEPT ![p] = @ + 1]
    /\ failed' = IF ok THEN failed ELSE failed \cup {p}

\* return nil, err
ReturnErr(e) ==
    /\ result' = [env |-> NilEnv, err |-> e]
    /\ pc' = "returned"

\* line 67: execPath, err := filepath.Abs(os.Args[0])
Abs ==
    /\ pc = "abs"
    /\ \E ok \in BOOLEAN :
        /\ Attempt("abs", ok)
        /\ err' = IF ok THEN NIL ELSE "errAbs"
        /\ IF ok THEN pc' = "md5" /\ UNCHANGED result
                 ELSE ReturnErr(err')
    /\ UNCHANGED <<run, fsVars, sockets, locals, hostName, call, prevCall, start>>

\* line 76: md5Str, err := utils.GetFileMd5(execPath)
Md5 ==
    /\ pc = "md5"
    /\ \E ok \in BOOLEAN :
        /\ Attempt("md5", ok)
        /\ err' = IF ok THEN NIL ELSE "errMd5"
        /\ IF ok THEN pc' = "dial" /\ UNCHANGED result
                 ELSE ReturnErr(err')
    /\ UNCHANGED <<run, fsVars, sockets, locals, hostName, call, prevCall, start>>

\* GetDefaultIp, lines 206-209: net.Dial; on failure it returns ("", err)
\* and NewEnviron (lines 83-86) returns that error.
Dial ==
    /\ pc = "dial"
    /\ \E ok \in BOOLEAN :
        /\ Attempt("ip", ok)
        /\ IF ok
           THEN /\ sockets' = sockets + 1
                /\ pc' = "localaddr"
                /\ UNCHANGED <<err, result, ipAddress>>
           ELSE /\ err' = "errDial"
                /\ ipAddress' = ""
                /\ UNCHANGED sockets
                /\ IF IpFatal(err') THEN ReturnErr(err')
                                    ELSE pc' = "mem" /\ UNCHANGED result
    /\ UNCHANGED <<run, fsVars, memInfo, FreeDisk, cpuCounts, isContainer,
                   hostName, call, prevCall, start>>

\* GetDefaultIp, lines 210-213: the local address is read, the deferred
\* Close runs, (ip, nil) is returned to NewEnviron.
LocalAddr ==
    /\ pc = "localaddr"
    /\ \E ip \in LocalIps : ipAddress' = ip
    /\ sockets' = DeferredClose(sockets)
    /\ err' = NIL
    /\ IF IpFatal(err') THEN ReturnErr(err') ELSE pc' = "mem" /\ UNCHANGED result
    /\ UNCHANGED <<run, fsVars, memInfo, FreeDisk, cpuCounts, isContainer,
                   hostName, attempts, failed, call, prevCall, start>>

\* line 89: memInfo, _ := mem.VirtualMemory()
Mem ==
    /\ pc = "mem"
    /\ \E ok \in BOOLEAN, total \in MemTotals :
        /\ TRUE
        /\ Attempt("mem", ok)
        /\ memInfo' = VirtualMemory(ok, total).info
    /\ pc' = "disk"
    /\ UNCHANGED <<run, fsVars, sockets, err, ipAddress, FreeDisk, cpuCounts,
                   isContainer, hostName, result, call, prevCall, start>>

\* line 92: FreeDisk, err := GetInstallDisk(execDir)
Disk ==
    /\ pc = "disk"
    /\ \E ok \in BOOLEAN, free \in DiskFrees :
        /\ TRUE
        /\ Attempt("disk", ok)
        /\ FreeDisk' = GetInstallDisk(ok, free).free
        /\ err' = GetInstallDisk(ok, free).err
    /\ pc' = "cpu"
    /\ UNCHANGED <<run, fsVars, sockets, ipAddress, memInfo, cpuCounts,
                   isContainer, hostName, result, call, prevCall, start>>

\* line 95: cpuCounts, err := cpu.Counts(true)
Cpu ==
    /\ pc = "cpu"
    /\ \E ok \in BOOLEAN, n \in CpuCountValues :
        /\ Attempt("cpu", ok)
        /\ cpuCounts' = CpuCounts(ok, n).n
        /\ err' = CpuCounts(ok, n).err
    /\ pc' = "docker"
    /\ UNCHANGED <<run, fsVars, sockets, ipAddress, memInfo, FreeDisk,
                   isContainer, hostName, result, call, prevCall, start>>

\* line 98: isContainer, err := utils.PathExists("/.dockerenv")
Docker ==
    /\ pc = "docker"
    /\ \E ok \in BOOLEAN, present \in BOOLEAN :
        /\ (~ok => ~present)
        /\ Attempt("docker", ok)
        /\ isContainer' = DockerEnvExists(ok, present)
        /\ err' = IF ok THEN NIL ELSE "errStat"
    /\ pc' = "readfile"
    /\ UNCHANGED <<run, fsVars, sockets, ipAddress, memInfo, FreeDisk,
                   cpuCounts, hostName, result, call, prevCall, start>>

\* getHostname, lines 123-132, called from line 101
ReadHostName ==
    /\ pc = "readfile"
    /\ \E statOk \in BOOLEAN, readOk \in BOOLEAN :
        LET r == readHostNameFromFile(file, statOk, readOk)
            ok == file = NoFile \/ (statOk /\ readOk)
        IN  /\ Attempt("cacheRead", ok)
            /\ hostName' = HostNameAfterRead(r)
            /\ call' = [NoCall EXCEPT !.made = TRUE, !.before = file,
                                      !.hit = (file # NoFile /\ statOk /\ readOk)]
            /\ pc' = IF NeedOsHostname(hostName') THEN "oshost" ELSE "write"
    /\ UNCHANGED <<run, fsVars, sockets, err, locals, result, prevCall, start>>

\* getHostname, line 133: hostName, _ = os.Hostname()
OsHost ==
    /\ pc = "oshost"
    /\ \E ok \in BOOLEAN, h \in Strings :
        /\ (~ok => h = EmptyString)
        /\ Attempt("osHostname", ok)
        /\ hostName' = OsHostname(ok, h)
        /\ call' = [call EXCEPT !.osTried = TRUE, !.osOk = ok, !.os = h]
        /\ pc' = PcAfterOsHostname(hostName')
    /\ UNCHANGED <<run, fsVars, sockets, err, locals, result, prevCall, start>>

\* getHostname, lines 137-141: writeHostNameToFile, then return hostName
WriteHostName ==
    /\ pc = "write"
    /\ \E mkdirOk \in BOOLEAN, writeOk \in BOOLEAN,
          left \in {file} \cup ProperPrefixes(hostName) :
        LET w == writeHostNameToFile(dir, file, hostName, mkdirOk, writeOk, left)
        IN  /\ (mkdirOk /\ writeOk => left = file)
            /\ (~mkdirOk => writeOk /\ left = file)
            /\ Attempt("cacheWrite", w.err = NIL)
            /\ dir' = w.dir
            /\ file' = w.file
            /\ call' = [call EXCEPT !.done = TRUE, !.wrote = hostName,
                                    !.wrOk = (mkdirOk /\ writeOk),
                                    !.werr = w.err,
                                    !.ret = getHostnameReturn(hostName, w.err)]
    /\ pc' = "assemble"
    /\ UNCHANGED <<run, sockets, err, locals, hostName, result, prevCall, start>>

\* lines 100-119: the snapshot is assembled and returned
Assemble ==
    /\ pc = "assemble"
    /\ memInfo # NilMem
    /\ result' = NewEnvironReturn(
                    [HostName |-> call.ret, Ip |-> ipAddress,
                     TotalMem |-> memInfo.Total \div GB, CpuCounts |-> cpuCounts,
                     FreeDisk |-> FreeDisk, IsContainer |-> isContainer,
                     IsConnectServer |-> FALSE], err)
    /\ pc' = "returned"
    /\ UNCHANGED <<run, fsVars, sockets, err, locals, hostName, attempts,
                   failed, call, prevCall, start>>

\* line 107: memInfo.Total with memInfo == nil panics.  The order of this
\* dereference and the getHostname call of line 101 is not specified, so
\* the panic may come before or after the hostname resolution.
PanicNilDeref ==
    /\ pc \in {"readfile", "assemble"}
    /\ memInfo = NilMem
    /\ pc' = "panicked"
    /\ UNCHANGED <<run, fsVars, sockets, err, locals, hostName, result,
                   attempts, failed, call, prevCall, start>>

\* The daemon is started again; only the file system persists.
Restart ==
    /\ pc \in {"returned", "panicked"}
    /\ run < MaxRuns
    /\ run' = run + 1
    /\ pc' = "abs"
    /\ err' = NIL
    /\ ipAddress' = ""
    /\ memInfo' = NilMem
    /\ FreeDisk' = 0
    /\ cpuCounts' = 0
    /\ isContainer' = FALSE
    /\ hostName' = EmptyString
    /\ result' = NoResult
    /\ attempts' = [p \in Probes |-> 0]
    /\ failed' = {}
    /\ prevCall' = IF call.made THEN call ELSE prevCall
    /\ call' = NoCall
    /\ start' = [dir |-> dir, file |-> file]
    /\ UNCHANGED <<fsVars, sockets>>

Next ==
    \/ Abs \/ Md5 \/ Dial \/ LocalAddr \/ Mem \/ Disk \/ Cpu \/ Docker
    \/ ReadHostName \/ OsHost \/ WriteHostName \/ Assemble \/ PanicNilDeref
    \/ Restart

Spec == Init /\ [][Next]_vars

TypeOK ==
    /\ file \in Files
    /\ hostName \in Strings
    /\ sockets \in 0..1
    /\ (file # NoFile => dir)

\* ------------------------------------------------------------ properties

Finished == pc \in {"returned", "panicked"}
FatalProbes == {"abs", "md5", "ip"}

\* C1 as stated: once hostname.txt holds a hostname, a call that writes
\* the cache leaves the persisted (trimmed) hostname as it was, also when
\* the persisted value is empty and when the read of the file fails.
C1_RatchetAnyValue ==
    (call.done /\ call.before # NoFile /\ call.wrOk)
        => TrimSpace(file) = TrimSpace(call.before)

\* C1 amended: once hostname.txt holds a hostname that is not blank, a call
\* whose read of the file succeeds never replaces it by the OS hostname: a
\* step that changes the file leaves the trimmed persisted hostname, or a
\* truncated prefix of it when the write fails.
C1_RatchetNonBlank ==
    [][(/\ file # NoFile
        /\ TrimSpace(file) # EmptyString
        /\ call'.hit
        /\ file' # file)
          => (/\ file' \in {TrimSpace(file)} \cup ProperPrefixes(TrimSpace(file))
              /\ call'.wrote = TrimSpace(file)
              /\ (call'.wrOk => file' = TrimSpace(file)))]_vars

\* C1 witness: a second run found a padded hostname persisted, read it and
\* wrote the trimmed name back.
C1_Witness ==
    /\ run = 2
    /\ call.done /\ call.hit /\ call.wrOk
    /\ call.before # TrimSpace(call.before)
    /\ file = <<"a">>

\* C2 as stated: from an empty cache the first call returns the OS
\* hostname and the second call returns the same value, for every pair of
\* OS hostnames (lookup, write and second read succeeding).
C2_IdempotentAnyName ==
    (/\ prevCall.done /\ prevCall.before = NoFile
     /\ prevCall.osOk /\ prevCall.wrOk
     /\ call.done /\ call.hit)
        => (prevCall.ret = prevCall.os /\ call.ret = prevCall.ret)

\* C2 amended: the same, for every pair of OS hostnames of which the first
\* is not empty and has no leading or trailing white space.
C2_IdempotentPlainName ==
    (/\ prevCall.done /\ prevCall.before = NoFile
     /\ prevCall.osOk /\ prevCall.wrOk
     /\ prevCall.os # EmptyString /\ TrimSpace(prevCall.os) = prevCall.os
     /\ call.done /\ call.hit)
        => (/\ prevCall.ret = prevCall.os
            /\ call.ret = prevCall.ret
            /\ ~call.osTried)

\* C2 witness: two calls from an empty cache, the second served by the cache.
C2_Witness ==
    /\ prevCall.done /\ prevCall.before = NoFile /\ prevCall.wrOk
    /\ prevCall.os = <<"a">>
    /\ call.done /\ call.hit /\ call.ret = <<"a">>

\* C4 as stated: whenever hostname.txt exists and is read, the call returns
\* its trimmed content, for every content.
C4_CacheHitAnyContent ==
    (call.done /\ call.hit) => call.ret = TrimSpace(call.before)

\* C4 amended: whenever hostname.txt exists, is read and is not blank, the
\* call returns its trimmed content and the OS hostname is not looked up.
C4_CacheHitNonBlank ==
    (call.made /\ call.hit /\ TrimSpace(call.before) # EmptyString)
        => (/\ ~call.osTried
            /\ hostName = TrimSpace(call.before)
            /\ (call.done => call.ret = TrimSpace(call.before)))

\* C4 witness: a file with white space around the name was read.
C4_Witness ==
    /\ call.done /\ call.hit
    /\ call.before \in {<<" ", "a">>, <<"a", " ">>}
    /\ call.ret = <<"a">>

\* What readHostNameFromFile gives for the file as it is now, when it can
\* read it.
ReadBack == readHostNameFromFile(file, TRUE, TRUE).name

\* C5 as stated: every call writes the resolved value; after a successful
\* write the directory and the file exist and a read of the cache returns
\* exactly the value written and returned.
C5_WriteBackExact ==
    /\ call.done => (attempts["cacheWrite"] = 1 /\ call.wrote = call.ret)
    /\ (call.done /\ call.wrOk)
          => (call.werr = NIL /\ dir /\ file = call.ret /\ ReadBack = call.ret)

\* C5 amended: every call writes the resolved value; after a successful
\* write the directory and the file exist, the file holds exactly the
\* value returned, and a read of the cache returns that value trimmed: the
\* value itself on a cache hit or when the OS hostname has no white space
\* around it.
C5_WriteBackTrimmed ==
    /\ call.done => (attempts["cacheWrite"] = 1 /\ call.wrote = call.ret)
    /\ (call.done /\ call.wrOk)
          => (/\ call.werr = NIL /\ dir /\ file = call.ret
              /\ ReadBack = TrimSpace(call.ret)
              /\ ((~call.osTried \/ TrimSpace(call.os) = call.os)
                    => ReadBack = call.ret))

\* C5 witness: neither directory nor file existed, the call created both.
C5_Witness ==
    /\ call.done /\ call.wrOk
    /\ ~start.dir /\ start.file = NoFile
    /\ dir /\ file = <<"a">> /\ call.ret = <<"a">>

\* The value getHostname is to return, from what the cache and the OS gave.
ExpectedHostName ==
    IF call.hit /\ TrimSpace(call.before) # EmptyString
    THEN TrimSpace(call.before)
    ELSE IF call.osTried /\ call.osOk THEN call.os ELSE EmptyString

\* C6: getHostname always returns a string: a failed cache read falls
\* through to the OS hostname, a failed OS lookup gives the empty string,
\* and a failed write changes nothing of the value returned.
C6_NeverFails ==
    /\ (call.made /\ ~call.hit /\ pc # "oshost") => call.osTried
    /\ call.done => (call.ret \in Strings /\ call.ret = ExpectedHostName)

\* C6 witness: the existing file could not be read, the write failed, and
\* the OS hostname was returned all the same.
C6_Witness ==
    /\ call.done
    /\ call.before # NoFile /\ ~call.hit
    /\ call.werr # NIL
    /\ call.ret = <<"a">>

\* C7: a failure of the path, hash or IP step returns that error and a nil
\* snapshot at once; a snapshot is returned only when all three succeeded,
\* and then with a nil error.
C7_FatalSteps ==
    /\ "abs" \in failed =>
          (/\ pc = "returned" /\ result = [env |-> NilEnv, err |-> "errAbs"]
           /\ \A p \in Probes \ {"abs"} : attempts[p] = 0)
    /\ "md5" \in failed =>
          (/\ pc = "returned" /\ result = [env |-> NilEnv, err |-> "errMd5"]
           /\ \A p \in Probes \ {"abs", "md5"} : attempts[p] = 0)
    /\ "ip" \in failed =>
          (/\ pc = "returned" /\ result = [env |-> NilEnv, err |-> "errDial"]
           /\ \A p \in Probes \ FatalProbes : attempts[p] = 0)
    /\ result.env # NilEnv =>
          (/\ pc = "returned" /\ result.err = NIL
           /\ FatalProbes \cap failed = {}
           /\ \A p \in FatalProbes : attempts[p] = 1)

\* C7 witness: the hash step failed and NewEnviron returned its error.
C7_Witness ==
    /\ pc = "returned" /\ "md5" \in failed
    /\ result = [env |-> NilEnv, err |-> "errMd5"]

\* C8: once GetDefaultIp has returned, with an address or with an error,
\* no socket it opened is open; a failed dial gives an empty address.
C8_SocketReleased ==
    /\ pc # "localaddr" => sockets = 0
    /\ "ip" \in failed => ipAddress = ""

\* C8 witness: GetDefaultIp returned an address and its socket is closed.
C8_Witness ==
    /\ pc = "mem" /\ attempts["ip"] = 1
    /\ ipAddress \in LocalIps /\ sockets = 0

\* C9 as stated: in a finished run every probe was attempted exactly once.
C9_ExactlyOnce ==
    Finished => \A p \in Probes : attempts[p] = 1

\* C9 amended: in a run every probe is attempted at most once; a run that
\* returns a snapshot attempted every probe exactly once, except the OS
\* hostname lookup, attempted once when the cache gave no name and not
\* at all otherwise.
C9_AtMostOnce ==
    /\ \A p \in Probes : attempts[p] <= 1
    /\ result.env # NilEnv =>
          (/\ \A p \in Probes \ {"osHostname"} : attempts[p] = 1
           /\ attempts["osHostname"] =
                 IF call.hit /\ TrimSpace(call.before) # EmptyString THEN 0 ELSE 1)

\* C9 witness: a run returned a snapshot after an OS lookup that gave the
\* empty string, and looked it up once.
C9_Witness ==
    /\ pc = "returned" /\ result.env # NilEnv
    /\ call.osTried /\ call.ret = EmptyString
    /\ attempts["osHostname"] = 1

\* C10: whenever NewEnviron returns an error, hostname.txt and its
\* directory are as the run found them, and getHostname was not called.
C10_FailedBuildLeavesCache ==
    (pc = "returned" /\ result.err # NIL)
        => (/\ dir = start.dir /\ file = start.file
            /\ ~call.made
            /\ attempts["cacheRead"] = 0 /\ attempts["cacheWrite"] = 0)

\* C10 witness: a run that found no cache failed at the IP probe and left
\* no cache behind.
C10_Witness ==
    /\ pc = "returned" /\ result.err = "errDial"
    /\ ~start.dir /\ ~dir /\ file = NoFile

\* C3: a failing memory, disk or cpu collaborator never aborts NewEnviron:
\* with the path, hash and IP steps done, the run ends with a snapshot and
\* a nil error, and the field of each failed collaborator is zero.
C3_StatFailureNeverAborts ==
    (Finished /\ attempts["ip"] = 1 /\ FatalProbes \cap failed = {})
        => (/\ pc = "returned"
            /\ result.env # NilEnv
            /\ result.err = NIL
            /\ ("mem" \in failed => result.env.TotalMem = 0)
            /\ ("disk" \in failed => result.env.FreeDisk = 0)
            /\ ("cpu" \in failed => result.env.CpuCounts = 0))

====
